---- MODULE Spec2Model ----
(***************************************************************************)
(* State-machine model of www/simulator.js of pyledstrip-simulator:        *)
(* GifRecorder (frame capture and GIF export), StripRenderer (viewport     *)
(* normalisation, compositing, render loop) and DataProvider (map and      *)
(* pixel polling), wired as in init().  Every handler of the page's        *)
(* single-threaded event loop is one atomic action.                        *)
(***************************************************************************)
EXTENDS Integers, Sequences, FiniteSets, TLC

\* ---- program constants (simulator.js:1-4, 93) ----
maxSize == 600
offPixelBrightness == 30
defaultDelay == 1000

\* ---- bounds of the model ----
MaxFrames == 2      \* frames captured before the armed render loop is held
MaxResults == 2     \* GIFs exported to #results, encodings in flight included
MaxXhr == 1         \* /data requests in flight
MaxGifFrames == 4   \* length of the capture sequences SpecGif starts from

\* ---- environment inputs ----
None == <<>>
Some(x) == <<x>>

\* wall-clock readings (ms) new Date().getTime() may return in Spec
Times == {0, 50, 120}
\* wall-clock readings of the capture sequences of SpecGif
GifTimes == {0, 50, 100, 120, 250, 400}
\* pixel dimensions of pixel.png
SpriteSize == <<20, 20>>
SpriteSizes == {SpriteSize}
\* pixel dimensions of pixel.png in SpecView
ViewSpriteSizes == {<<20, 20>>, <<20, 30>>, <<64, 48>>}
\* layouts the /map endpoint may deliver
ExampleLayout == << <<0, 0>>, <<10, 0>>, <<0, 10>> >>
Layouts == { <<>>, << <<5, 5>> >>, ExampleLayout }
\* layouts the /map endpoint may deliver in SpecView
ViewLayouts == { <<>>,
                 << <<5, 5>> >>,
                 << <<2, 7>>, <<2, 7>> >>,
                 ExampleLayout,
                 << <<-4, 2>>, <<16, 12>> >>,
                 << <<3, 1>>, <<3, 9>> >>,
                 << <<0, 4>>, <<7, 4>>, <<3, 4>> >>,
                 << <<0, 0>>, <<8, 1>> >>,
                 << <<1, 0>>, <<0, 3>>, <<2, 8>> >>,
                 << <<-3, -3>>, <<3, 3>>, <<0, 1>> >> }
\* colour frames the /data endpoint may deliver
OneBlack == << <<0, 0, 0>> >>
ColorFrames == { <<>>,
                 OneBlack,
                 << <<255, 255, 255>>, <<0, 128, 255>>, <<0, 0, 0>>, <<255, 0, 0>> >> }
\* progress fractions (numerator, denominator) the encoder may report
Progresses == { <<1, 2>> }

VARIABLES
    \* DataProvider
    mapXhr,        \* "pending" | "done": the /map request of acquireMap()
    polling,       \* setInterval(acquirePixelData) is installed
    dataXhr,       \* number of /data requests in flight
    \* StripRenderer
    image,         \* None until pixel.png loaded, then Some(<<w, h>>); tintCtx exists iff loaded
    map,           \* None (undefined) or Some(layout)
    pixels,        \* None (undefined) or Some(colour frame)
    scaling,       \* [num, den]: the quotient num/den; den = 0 is a non-finite value
    xOffset, yOffset,
    canvas,        \* [width, height, lights]: lights = tinted sprites composited since the last fill
    rafPending,    \* requestAnimationFrame callbacks pending
    rafId,         \* handle of the last requestAnimationFrame request, modulo 2
    threw,         \* the last render() raised a TypeError
    \* GifRecorder
    frames,        \* sequence of [timestamp, canvas]
    active,
    disabled,      \* btnRecord.disabled
    btnText,       \* btnRecord.innerText
    progressText,  \* progressText.innerText
    gifs,          \* GIF instances that are encoding: [state, frames]
    results,       \* number of <img> appended to #results
    now            \* last wall-clock reading

providerVars == <<mapXhr, polling, dataXhr>>
rendererVars == <<image, map, pixels, scaling, xOffset, yOffset, canvas, rafPending, rafId,
                  threw>>
recorderVars == <<frames, active, disabled, btnText, progressText>>
encoderVars == <<gifs, results>>
vars == <<mapXhr, polling, dataXhr, image, map, pixels, scaling, xOffset, yOffset,
          canvas, rafPending, rafId, threw, frames, active, disabled, btnText, progressText,
          gifs, results, now>>

\* ---- arithmetic helpers ----
\* Math.round(a / b) for b > 0: the nearest integer, halves towards +infinity
Round(a, b) == (2 * a + b) \div (2 * b)

\* the sequence s without its g-th element
Remove(s, g) == SubSeq(s, 1, g - 1) \o SubSeq(s, g + 1, Len(s))

Min2(a, b) == IF a < b THEN a ELSE b

SeqMin(s, k) == CHOOSE m \in {s[i][k] : i \in 1..Len(s)} : \A i \in 1..Len(s) : m <= s[i][k]
SeqMax(s, k) == CHOOSE m \in {s[i][k] : i \in 1..Len(s)} : \A i \in 1..Len(s) : m >= s[i][k]

\* ---- StripRenderer ----

\* the value a canvas dimension holds after  canvas.dim = Math.round(x * q) + extra:
\* a non-finite product (q = n/0, so x * q is NaN or an infinity) converts to 0
CanvasDim(x, q, extra) ==
    IF q.den # 0 THEN Round(x * q.num, q.den) + extra ELSE 0

\* mutant: equal spans take the width-bound branch
resizeCanvas_tieToWidth(m, img, vp) ==
    IF m = None \/ img = None THEN [vp EXCEPT !.resized = FALSE]
    ELSE IF Len(m[1]) = 0 THEN [vp EXCEPT !.resized = FALSE]
    ELSE
      LET pts == m[1]
          xMin == SeqMin(pts, 1)
          yMin == SeqMin(pts, 2)
          xDiff == SeqMax(pts, 1) - xMin
          yDiff == SeqMax(pts, 2) - yMin
      IN IF xDiff >= yDiff
         THEN LET s == [num |-> maxSize - img[1][1], den |-> xDiff]
              IN [scaling |-> s, xOffset |-> -xMin, yOffset |-> -yMin,
                  width |-> maxSize, height |-> CanvasDim(yDiff, s, img[1][2]),
                  resized |-> TRUE]
         ELSE LET s == [num |-> maxSize - img[1][2], den |-> yDiff]
              IN [scaling |-> s, xOffset |-> -xMin, yOffset |-> -yMin,
                  width |-> CanvasDim(xDiff, s, img[1][1]), height |-> maxSize,
                  resized |-> TRUE]

\* resizeCanvas(): the viewport after the call, given the layout m, the sprite img
\* and the viewport vp before the call; resized tells whether the canvas was reset
resizeCanvas(m, img, vp) ==
    IF m = None \/ img = None THEN [vp EXCEPT !.resized = FALSE]
    ELSE IF Len(m[1]) = 0 THEN [vp EXCEPT !.resized = FALSE]
    ELSE
      LET pts == m[1]
          xMin == SeqMin(pts, 1)
          xMax == SeqMax(pts, 1)
          yMin == SeqMin(pts, 2)
          yMax == SeqMax(pts, 2)
          maxWidth == maxSize - img[1][1]
          maxHeight == maxSize - img[1][2]
          xDiff == xMax - xMin
          yDiff == yMax - yMin
      IN IF xDiff > yDiff
         THEN LET s == [num |-> maxWidth, den |-> xDiff]
              IN [scaling |-> s, xOffset |-> -xMin, yOffset |-> -yMin,
                  width |-> maxSize, height |-> CanvasDim(yDiff, s, img[1][2]),
                  resized |-> TRUE]
         ELSE LET s == [num |-> maxHeight, den |-> yDiff]
              IN [scaling |-> s, xOffset |-> -xMin, yOffset |-> -yMin,
                  width |-> CanvasDim(xDiff, s, img[1][1]), height |-> maxSize,
                  resized |-> TRUE]

viewport == [scaling |-> scaling, xOffset |-> xOffset, yOffset |-> yOffset,
             width |-> canvas.width, height |-> canvas.height, resized |-> FALSE]

\* assignment of the viewport computed by resizeCanvas(); setting a canvas
\* dimension resets its bitmap
ApplyViewport(vp) ==
    /\ scaling' = vp.scaling
    /\ xOffset' = vp.xOffset
    /\ yOffset' = vp.yOffset
    /\ canvas' = IF vp.resized
                 THEN [width |-> vp.width, height |-> vp.height, lights |-> <<>>]
                 ELSE canvas

\* "Make off-pixels visible": the remapped colour of one pixel
tint(pixel) ==
    [k \in 1..3 |-> offPixelBrightness + Round((255 - offPixelBrightness) * pixel[k], 255)]

\* l of render(): the number of lights the loop iterates over
renderBound(px, m) == Min2(Len(px), Len(px))

\* mutant: render() without the check that layout and colour frame are present
render_noGuard(m, px, img, cv) ==
    IF m = None \/ px = None
    THEN [canvas |-> [cv EXCEPT !.lights = <<>>], threw |-> FALSE, callbacks |-> TRUE]
    ELSE LET l == renderBound(px[1], m[1])
             bad == {i \in 1..l : img = None \/ i > Len(m[1])}
             done == IF bad = {} THEN l
                     ELSE (CHOOSE i \in bad : \A j \in bad : i <= j) - 1
         IN [canvas |-> [cv EXCEPT !.lights = [i \in 1..done |-> tint(px[1][i])]],
             threw |-> bad # {},
             callbacks |-> bad = {}]

\* mutant: render() clears the canvas by setting its width to maxSize
render_clearsBySize(m, px, img, cv) ==
    IF m = None \/ px = None
    THEN [canvas |-> cv, threw |-> FALSE, callbacks |-> FALSE]
    ELSE LET l == renderBound(px[1], m[1])
             bad == {i \in 1..l : img = None \/ i > Len(m[1])}
             done == IF bad = {} THEN l
                     ELSE (CHOOSE i \in bad : \A j \in bad : i <= j) - 1
         IN [canvas |-> [cv EXCEPT !.width = maxSize,
                                   !.lights = [i \in 1..done |-> tint(px[1][i])]],
             threw |-> bad # {},
             callbacks |-> bad = {}]

\* mutant: render() invokes its callbacks although the compositing loop raised
render_alwaysCallbacks(m, px, img, cv) ==
    IF m = None \/ px = None
    THEN [canvas |-> cv, threw |-> FALSE, callbacks |-> FALSE]
    ELSE LET l == renderBound(px[1], m[1])
             bad == {i \in 1..l : img = None \/ i > Len(m[1])}
             done == IF bad = {} THEN l
                     ELSE (CHOOSE i \in bad : \A j \in bad : i <= j) - 1
         IN [canvas |-> [cv EXCEPT !.lights = [i \in 1..done |-> tint(px[1][i])]],
             threw |-> bad # {},
             callbacks |-> TRUE]

\* render(): canvas content, whether a TypeError was raised, and whether the
\* render callbacks were invoked
render(m, px, img, cv) ==
    IF m = None \/ px = None
    THEN [canvas |-> cv, threw |-> FALSE, callbacks |-> FALSE]
    ELSE LET l == renderBound(px[1], m[1])
             \* iteration i (1-based) raises when tintCtx is undefined or map[i] is
             fails(i) == img = None \/ i > Len(m[1])
             bad == {i \in 1..l : fails(i)}
             done == IF bad = {} THEN l
                     ELSE (CHOOSE i \in bad : \A j \in bad : i <= j) - 1
         IN [canvas |-> [cv EXCEPT !.lights = [i \in 1..done |-> tint(px[1][i])]],
             threw |-> bad # {},
             callbacks |-> bad = {}]

\* the destination of light i in render()'s drawImage, as fractions num/den
drawX(i) == [num |-> (map[1][i][1] + xOffset) * scaling.num, den |-> scaling.den]
drawY(i) == [num |-> (canvas.height - image[1][2]) * scaling.den
                       - (map[1][i][2] + yOffset) * scaling.num,
             den |-> scaling.den]

\* ---- GifRecorder ----

\* mutant: addFrame without the check of active
addFrame_always(fr, act, t, cv) == Append(fr, [timestamp |-> t, canvas |-> cv])

\* addFrame(canvas) at wall-clock reading t
addFrame(fr, act, t, cv) ==
    IF ~act THEN fr ELSE Append(fr, [timestamp |-> t, canvas |-> cv])

\* mutant: clear() that keeps the frames
clear_keep(fr) == fr

clear(fr) == <<>>

\* the loop of generateGif(): the frames handed to gif.addFrame, with their delays
RECURSIVE gifAddFrames(_, _, _, _)
gifAddFrames(fr, i, delay, acc) ==
    IF i > Len(fr) THEN acc
    ELSE LET d == IF i + 1 <= Len(fr)
                  THEN fr[i + 1].timestamp - fr[i].timestamp
                  ELSE delay
         IN gifAddFrames(fr, i + 1, d, Append(acc, [canvas |-> fr[i].canvas, delay |-> d]))

\* mutant: the last frame always gets the default delay
generateGifFrames_lastDefault(fr) ==
    [i \in 1..Len(fr) |->
        [canvas |-> fr[i].canvas,
         delay |-> IF i + 1 <= Len(fr) THEN fr[i + 1].timestamp - fr[i].timestamp
                   ELSE defaultDelay]]

\* mutant: the delay of a frame is the time since the previous frame
generateGifFrames_backward(fr) ==
    [i \in 1..Len(fr) |->
        [canvas |-> fr[i].canvas,
         delay |-> IF i > 1 THEN fr[i].timestamp - fr[i - 1].timestamp
                   ELSE defaultDelay]]

generateGifFrames(fr) == gifAddFrames(fr, 1, defaultDelay, <<>>)

\* mutant: the empty export does not enable the button again
generateGif_keepDisabled(dis) ==
    IF Len(frames) = 0
    THEN /\ progressText' = "No frames"
         /\ disabled' = dis
         /\ UNCHANGED gifs
    ELSE /\ gifs' = Append(gifs, [state |-> "rendering", frames |-> generateGifFrames(frames)])
         /\ disabled' = dis
         /\ UNCHANGED progressText

\* generateGif(), called with btnRecord.disabled = dis
generateGif(dis) ==
    IF Len(frames) = 0
    THEN /\ progressText' = "No frames"
         /\ disabled' = FALSE
         /\ UNCHANGED gifs
    ELSE /\ gifs' = Append(gifs, [state |-> "rendering", frames |-> generateGifFrames(frames)])
         /\ disabled' = dis
         /\ UNCHANGED progressText

start ==
    /\ active' = TRUE
    /\ progressText' = "Recording"
    /\ btnText' = "Stop"
    /\ UNCHANGED <<frames, disabled, gifs>>

\* mutant: stop() that does not disable the record button
stop_noDisable ==
    /\ Len(frames) > 0 => results + Len(gifs) < MaxResults
    /\ active' = FALSE
    /\ btnText' = "Record"
    /\ generateGif(disabled)
    /\ UNCHANGED frames

stop ==
    /\ Len(frames) > 0 => results + Len(gifs) < MaxResults
    /\ active' = FALSE
    /\ btnText' = "Record"
    /\ generateGif(TRUE)
    /\ UNCHANGED frames

\* ---- actions: one per handler of the event loop ----

\* btnRecord.onclick; a disabled button dispatches no click
onclick ==
    /\ ~disabled
    /\ IF active THEN stop ELSE start
    /\ UNCHANGED <<providerVars, rendererVars, results, now>>

\* the encoder's 'start' event for GIF g
gifOnStart(g) ==
    /\ gifs[g].state = "rendering"
    /\ gifs' = [gifs EXCEPT ![g].state = "started"]
    /\ progressText' = "Starting"
    /\ UNCHANGED <<providerVars, rendererVars, frames, active, disabled, btnText, results, now>>

\* the encoder's 'progress' event for GIF g with progress p[1]/p[2]
gifOnProgress(g, p) ==
    /\ gifs[g].state = "started"
    /\ progressText' = ToString(Round(100 * p[1], p[2])) \o "%"
    /\ UNCHANGED <<providerVars, rendererVars, frames, active, disabled, btnText, gifs,
                   results, now>>

\* mutant: the abort handler does not enable the button again
gifOnAbort_noEnable(g) ==
    /\ gifs[g].state = "started"
    /\ gifs' = Remove(gifs, g)
    /\ progressText' = "Aborted"
    /\ UNCHANGED <<providerVars, rendererVars, frames, active, disabled, btnText, results, now>>

\* the encoder's 'abort' event for GIF g
gifOnAbort(g) ==
    /\ gifs[g].state = "started"
    /\ gifs' = Remove(gifs, g)
    /\ progressText' = "Aborted"
    /\ disabled' = FALSE
    /\ UNCHANGED <<providerVars, rendererVars, frames, active, btnText, results, now>>

\* the encoder's 'finished' event for GIF g
gifOnFinished(g) ==
    /\ gifs[g].state = "started"
    /\ gifs' = Remove(gifs, g)
    /\ progressText' = "Finished"
    /\ results' = results + 1
    /\ frames' = clear(frames)
    /\ disabled' = FALSE
    /\ UNCHANGED <<providerVars, rendererVars, active, btnText, now>>

\* image.onload of pixel.png with dimensions sz
imageOnload(sz) ==
    /\ image = None
    /\ image' = Some(sz)
    /\ ApplyViewport(resizeCanvas(map, Some(sz), viewport))
    /\ UNCHANGED <<providerVars, map, pixels, rafPending, rafId, threw, recorderVars, encoderVars,
                   now>>

\* setMap(m), the map callback
setMap(m) ==
    /\ map' = m
    /\ ApplyViewport(resizeCanvas(m, image, viewport))

setPixels(px) == pixels' = px

\* xhr.onload of acquireMap(): HTTP status, and the parsed body (None when
\* JSON.parse throws)
acquireMapOnload(status, body) ==
    /\ mapXhr = "pending"
    /\ mapXhr' = "done"
    /\ IF status = 200 /\ body # None
       THEN /\ setMap(body)
            /\ polling' = TRUE
       ELSE UNCHANGED <<map, scaling, xOffset, yOffset, canvas, polling>>
    /\ UNCHANGED <<dataXhr, image, pixels, rafPending, rafId, threw, recorderVars, encoderVars,
                   now>>

\* a firing of the interval timer: acquirePixelData() sends a /data request
acquirePixelData ==
    /\ polling
    /\ dataXhr < MaxXhr
    /\ dataXhr' = dataXhr + 1
    /\ UNCHANGED <<mapXhr, polling, rendererVars, recorderVars, encoderVars, now>>

\* xhr.onload of acquirePixelData()
acquirePixelDataOnload(status, body) ==
    /\ dataXhr > 0
    /\ dataXhr' = dataXhr - 1
    /\ IF status = 200 /\ body # None
       THEN setPixels(body)
       ELSE UNCHANGED pixels
    /\ UNCHANGED <<mapXhr, polling, image, map, scaling, xOffset, yOffset, canvas,
                   rafPending, rafId, threw, recorderVars, encoderVars, now>>

\* mutant: loop() that renders first and requests the next frame afterwards, so
\* a render() that raises leaves no request pending
loop_renderFirst ==
    /\ rafPending > 0
    /\ rafId' = (rafId + 1) % 2
    /\ LET r == render(map, pixels, image, canvas)
       IN /\ canvas' = r.canvas
          /\ threw' = r.threw
          /\ rafPending' = IF r.threw THEN rafPending - 1 ELSE (rafPending - 1) + 1
          /\ IF r.callbacks
             THEN \E t \in Times :
                    /\ t >= now
                    /\ frames' = addFrame(frames, active, t, r.canvas)
                    /\ now' = IF active THEN t ELSE now
                    /\ Len(frames') <= MaxFrames
             ELSE UNCHANGED <<frames, now>>
    /\ UNCHANGED <<providerVars, image, map, pixels, scaling, xOffset, yOffset,
                   active, disabled, btnText, progressText, encoderVars>>

\* loop(): one animation-frame callback: request the next one, then render();
\* a render that reaches its callbacks calls addFrame, which reads the wall
\* clock (reading t) only while the recorder is active
loop ==
    /\ rafPending > 0
    /\ rafPending' = (rafPending - 1) + 1
    /\ rafId' = (rafId + 1) % 2
    /\ LET r == render(map, pixels, image, canvas)
       IN /\ canvas' = r.canvas
          /\ threw' = r.threw
          /\ IF r.callbacks
             THEN \E t \in Times :
                    /\ t >= now
                    /\ frames' = addFrame(frames, active, t, r.canvas)
                    /\ now' = IF active THEN t ELSE now
                    /\ Len(frames') <= MaxFrames
             ELSE UNCHANGED <<frames, now>>
    /\ UNCHANGED <<providerVars, image, map, pixels, scaling, xOffset, yOffset,
                   active, disabled, btnText, progressText, encoderVars>>

\* ---- the page as wired by init() ----

Statuses == {200, 500}

Init ==
    /\ mapXhr = "pending"
    /\ polling = FALSE
    /\ dataXhr = 0
    /\ image = None
    /\ map = None
    /\ pixels = None
    /\ scaling = [num |-> 1, den |-> 1]
    /\ xOffset = 0
    /\ yOffset = 0
    /\ canvas = [width |-> 300, height |-> 150, lights |-> <<>>]
    /\ rafPending = 1
    /\ rafId = 1
    /\ threw = FALSE
    /\ frames = <<>>
    /\ active = FALSE
    /\ disabled = FALSE
    /\ btnText = "Record"
    /\ progressText = ""
    /\ gifs = <<>>
    /\ results = 0
    /\ now = 0

Click == onclick
GifStart == \E g \in 1..Len(gifs) : gifOnStart(g)
GifProgress == \E g \in 1..Len(gifs) : \E p \in Progresses : gifOnProgress(g, p)
GifAbort == \E g \in 1..Len(gifs) : gifOnAbort(g)
GifFinished == \E g \in 1..Len(gifs) : gifOnFinished(g)
ImageLoad == \E sz \in SpriteSizes : imageOnload(sz)
MapLoad == \E st \in Statuses : \E body \in {None} \cup {Some(l) : l \in Layouts} :
              acquireMapOnload(st, body)
DataSend == acquirePixelData
DataLoad == \E st \in Statuses : \E body \in {None} \cup {Some(f) : f \in ColorFrames} :
              acquirePixelDataOnload(st, body)
Tick == loop

Next ==
    \/ Click
    \/ GifStart
    \/ GifProgress
    \/ GifAbort
    \/ GifFinished
    \/ ImageLoad
    \/ MapLoad
    \/ DataSend
    \/ DataLoad
    \/ Tick

Spec == Init /\ [][Next]_vars

\* ---- the viewport over a wider set of layouts and sprites (no recording) ----

ImageLoadView == \E sz \in ViewSpriteSizes : imageOnload(sz)
MapLoadView == \E l \in ViewLayouts : acquireMapOnload(200, Some(l))

NextView ==
    \/ ImageLoadView
    \/ MapLoadView
    \/ DataSend
    \/ DataLoad
    \/ Tick

SpecView == Init /\ [][NextView]_vars

\* ---- the page once pixel.png, the map and a colour frame have arrived ----

LoadedViewport == resizeCanvas(Some(ExampleLayout), Some(SpriteSize),
                               [scaling |-> [num |-> 1, den |-> 1], xOffset |-> 0,
                                yOffset |-> 0, width |-> 300, height |-> 150,
                                resized |-> FALSE])

Loaded ==
    /\ mapXhr = "done"
    /\ polling = TRUE
    /\ dataXhr = 0
    /\ image = Some(SpriteSize)
    /\ map = Some(ExampleLayout)
    /\ pixels = Some(OneBlack)
    /\ scaling = LoadedViewport.scaling
    /\ xOffset = LoadedViewport.xOffset
    /\ yOffset = LoadedViewport.yOffset
    /\ rafPending = 1
    /\ threw = FALSE

InitLoaded ==
    /\ Loaded
    /\ rafId = 1
    /\ canvas = [width |-> LoadedViewport.width, height |-> LoadedViewport.height,
                 lights |-> <<>>]
    /\ frames = <<>>
    /\ active = FALSE
    /\ disabled = FALSE
    /\ btnText = "Record"
    /\ progressText = ""
    /\ gifs = <<>>
    /\ results = 0
    /\ now = 0

\* ---- the loaded page, with the browser running every pending
\* animation-frame callback ----

NextLive ==
    \/ Click
    \/ Tick
    \/ GifStart
    \/ GifProgress
    \/ GifAbort
    \/ GifFinished
    \/ DataSend
    \/ DataLoad

SpecLive == InitLoaded /\ [][NextLive]_vars /\ WF_vars(Tick)

\* ---- the recorder's methods called directly, not through the button ----

CallStart ==
    /\ start
    /\ UNCHANGED <<providerVars, rendererVars, results, now>>

CallStop ==
    /\ stop
    /\ UNCHANGED <<providerVars, rendererVars, results, now>>

NextApi ==
    \/ CallStart
    \/ CallStop
    \/ Tick
    \/ GifStart
    \/ GifProgress
    \/ GifAbort
    \/ GifFinished

SpecApi == InitLoaded /\ [][NextApi]_vars

\* ---- export of capture sequences with arbitrary wall-clock readings ----

\* the canvas after a tick of the loaded page
LoadedCanvas == [width |-> LoadedViewport.width, height |-> LoadedViewport.height,
                 lights |-> [i \in 1..1 |-> tint(OneBlack[i])]]

Stamps(fr) == [i \in 1..Len(fr) |-> fr[i].timestamp]

NonDecreasing(ts) == \A i \in 1..(Len(ts) - 1) : ts[i] <= ts[i + 1]

GifStampSeqs == {ts \in UNION {[1..n -> GifTimes] : n \in 0..MaxGifFrames} : NonDecreasing(ts)}

\* armed, with a capture sequence recorded at the readings ts
InitGif ==
    /\ Loaded
    /\ rafId \in {0, 1}
    /\ canvas = LoadedCanvas
    /\ \E ts \in GifStampSeqs :
         /\ frames = [i \in 1..Len(ts) |-> [timestamp |-> ts[i], canvas |-> LoadedCanvas]]
         /\ now = IF Len(ts) = 0 THEN 0 ELSE ts[Len(ts)]
    /\ active = TRUE
    /\ disabled = FALSE
    /\ btnText = "Stop"
    /\ progressText = "Recording"
    /\ gifs = <<>>
    /\ results = 0

NextGif ==
    \/ Click
    \/ GifStart
    \/ GifProgress
    \/ GifAbort
    \/ GifFinished

SpecGif == InitGif /\ [][NextGif]_vars

\* ---- type invariant ----

TypeOK ==
    /\ mapXhr \in {"pending", "done"}
    /\ polling \in BOOLEAN
    /\ dataXhr \in 0..MaxXhr
    /\ results + Len(gifs) <= MaxResults
    /\ rafPending = 1
    /\ scaling.den >= 0
    /\ active \in BOOLEAN
    /\ disabled \in BOOLEAN
    /\ btnText \in {"Record", "Stop"}

\* InitLoaded is a state of Spec
LoadedReached ==
    /\ Loaded /\ rafId = 1
    /\ canvas = [width |-> LoadedViewport.width, height |-> LoadedViewport.height,
                 lights |-> <<>>]
    /\ frames = <<>> /\ ~active /\ ~disabled /\ progressText = "" /\ gifs = <<>>
    /\ results = 0 /\ now = 0 /\ btnText = "Record"

\* ======================= claims =======================

Delays(g) == [i \in 1..Len(g.frames) |-> g.frames[i].delay]

\* C1: while a capture sequence of n >= 1 frames is being encoded, the encoder
\* was handed exactly one frame per captured frame, in capture order; the delay
\* of frame i is timestamp[i+1] - timestamp[i] whenever a next frame exists, the
\* delay of the last frame equals that of the frame before it when n >= 2 and is
\* 1000 when n = 1; timestamps 0,50,120 give delays 50,70,70.
C1_DelayPerFrame ==
    \A g \in 1..Len(gifs) :
        LET d == gifs[g].frames
            n == Len(frames)
        IN /\ n >= 1
           /\ Len(d) = n
           /\ \A i \in 1..n : d[i].canvas = frames[i].canvas
           /\ \A i \in 1..(n - 1) : d[i].delay = frames[i + 1].timestamp - frames[i].timestamp
           /\ n >= 2 => d[n].delay = d[n - 1].delay
           /\ n = 1 => d[n].delay = 1000
           /\ Stamps(frames) = <<0, 50, 120>> => Delays(gifs[g]) = <<50, 70, 70>>

C1_Witness ==
    /\ Len(gifs) = 1
    /\ Stamps(frames) = <<0, 50, 120>>
    /\ Delays(gifs[1]) = <<50, 70, 70>>

\* C2 (as claimed): four frames captured at 0, 100, 250, 400 are handed to the
\* encoder with the delay sequence [100, 150, 150].
C2_ThreeDelays ==
    \A g \in 1..Len(gifs) :
        Stamps(frames) = <<0, 100, 250, 400>> => Delays(gifs[g]) = <<100, 150, 150>>

\* C2 (amended): four frames captured at 0, 100, 250, 400 are handed to the
\* encoder with one delay per frame, [100, 150, 150, 150]: the three observed
\* gaps, then the last gap repeated for the final frame.
C2_FourDelays ==
    \A g \in 1..Len(gifs) :
        Stamps(frames) = <<0, 100, 250, 400>> => Delays(gifs[g]) = <<100, 150, 150, 150>>

C2_Witness ==
    /\ Len(gifs) = 1
    /\ gifs[1].state = "rendering"
    /\ Stamps(frames) = <<0, 100, 250, 400>>
    /\ Len(gifs[1].frames) = 4

\* render() reaches its callbacks: layout and colour frame are present and no
\* iteration of the compositing loop raises (no colour to draw, or the sprite
\* is loaded and every colour index has a layout entry)
ReachesCallbacks ==
    /\ map # None
    /\ pixels # None
    /\ \/ Len(pixels[1]) = 0
       \/ image # None /\ Len(pixels[1]) <= Len(map[1])

Session == IF active THEN "Armed" ELSE IF disabled THEN "Encoding" ELSE "Idle"

\* a step in which an encoder emitted 'finished' / 'abort'
Finishes == Len(gifs') < Len(gifs) /\ progressText' = "Finished"
Aborts == Len(gifs') < Len(gifs) /\ progressText' = "Aborted"

\* C4: when the encoder emits 'finished', afterwards the capture sequence is
\* empty and the session is Idle (active = false, record button enabled), and
\* that event adds exactly one asset to the results; this lasts for as long as
\* the status reads "Finished".
C4_Finished ==
    /\ [](progressText = "Finished" => frames = <<>> /\ ~active /\ ~disabled /\ gifs = <<>>)
    /\ [][Finishes => /\ frames # <<>> /\ frames' = <<>>
                      /\ Session = "Encoding" /\ Session' = "Idle"
                      /\ results' = results + 1]_vars
    /\ [][results' # results => Finishes]_vars

C4_Witness ==
    /\ progressText = "Finished"
    /\ results = 1
    /\ frames = <<>>
    /\ Session = "Idle"

\* C5: when the encoder emits 'abort', the session returns to Idle, the capture
\* sequence is empty afterwards, and no asset is produced.
C5_AbortClears ==
    [][Aborts => /\ Session' = "Idle"
                 /\ frames' = <<>>
                 /\ results' = results]_vars

\* a step in which stop() ran on an empty capture sequence
StopsEmpty == active /\ ~active' /\ frames = <<>>

\* C6: when stop is requested with an empty capture sequence, the status
\* becomes "No frames", no encoder is created and no frame is submitted, and
\* the session is Idle afterwards (active = false, record button enabled); the
\* session is Idle for as long as the status reads "No frames".
C6_NoFrames ==
    /\ [][StopsEmpty => /\ progressText' = "No frames"
                        /\ gifs' = gifs
                        /\ frames' = <<>>
                        /\ results' = results
                        /\ Session' = "Idle"]_vars
    /\ [](progressText = "No frames" => Session = "Idle" /\ frames = <<>>)

C6_Witness ==
    /\ progressText = "No frames"
    /\ Session = "Idle"
    /\ gifs = <<>>
    /\ results = 0

\* on an encoder's terminal event the Encoding session returns to Idle
TerminalReturnsIdle ==
    Len(gifs') < Len(gifs) => Session = "Encoding" /\ Session' = "Idle"

\* C7 (as claimed): the capture session changes state only Idle -> Armed (on
\* start), Armed -> Encoding (on stop) and Encoding -> Idle (on the encoder's
\* finished or abort), and the encoder's terminal event returns the Encoding
\* session to Idle.
C7_ThreeTransitions ==
    [][/\ Session' # Session =>
            \/ Session = "Idle" /\ Session' = "Armed" /\ progressText' = "Recording"
            \/ Session = "Armed" /\ Session' = "Encoding" /\ Len(gifs') = Len(gifs) + 1
            \/ Session = "Encoding" /\ Session' = "Idle" /\ (Finishes \/ Aborts)
       /\ TerminalReturnsIdle]_vars

\* C7 (amended): as claimed, with one more transition: Armed -> Idle on a stop
\* command that finds the capture sequence empty (status "No frames", no
\* encoder created).
C7_FourTransitions ==
    [][/\ Session' # Session =>
            \/ Session = "Idle" /\ Session' = "Armed" /\ progressText' = "Recording"
            \/ Session = "Armed" /\ Session' = "Encoding" /\ Len(gifs') = Len(gifs) + 1
                  /\ frames # <<>>
            \/ Session = "Encoding" /\ Session' = "Idle" /\ (Finishes \/ Aborts)
            \/ Session = "Armed" /\ Session' = "Idle" /\ frames = <<>>
                  /\ progressText' = "No frames" /\ gifs' = gifs
       /\ TerminalReturnsIdle]_vars

C7_Witness ==
    /\ Session = "Idle"
    /\ progressText = "Aborted"
    /\ results = 1

\* C8: start() called twice in a row leaves the state of one call, and stop()
\* called while the recorder is already disarmed is a no-op: it changes no
\* recorder state (frames, active, button, status) and starts no encoding.
C8_Idempotent ==
    [][/\ (CallStart /\ active /\ progressText = "Recording" /\ btnText = "Stop")
            => UNCHANGED <<recorderVars, gifs>>
       /\ (CallStop /\ ~active) => UNCHANGED <<recorderVars, gifs>>]_vars

\* spans of the bounding box of the current layout
SpanX == SeqMax(map[1], 1) - SeqMin(map[1], 1)
SpanY == SeqMax(map[1], 2) - SeqMin(map[1], 2)

\* resizeCanvas() has normalised the current layout
Normalised == image # None /\ map # None /\ Len(map[1]) > 0

\* C9: once resizeCanvas() has run on a layout with a non-zero span on some
\* axis, scale > 0 and is the room left by the sprite divided by the longer
\* span, the canvas dimension along the longer-span axis is the bound 600 and
\* the other is round(shorterSpan * scale) + sprite size; equal spans take the
\* height-bound branch (layout (0,0),(10,0),(0,10) with a 20x20 sprite gives
\* scale 58 and a 600x600 canvas).
C9_LongerAxisFillsBound ==
    (Normalised /\ (SpanX > 0 \/ SpanY > 0)) =>
        LET w == image[1][1]
            h == image[1][2]
        IN /\ scaling.num > 0 /\ scaling.den > 0
           /\ SpanX > SpanY =>
                /\ scaling.num * SpanX = (maxSize - w) * scaling.den
                /\ canvas.width = 600
                /\ canvas.height = Round(SpanY * scaling.num, scaling.den) + h
           /\ SpanX <= SpanY =>
                /\ scaling.num * SpanY = (maxSize - h) * scaling.den
                /\ canvas.height = 600
                /\ canvas.width = Round(SpanX * scaling.num, scaling.den) + w
           /\ (map[1] = ExampleLayout /\ image[1] = <<20, 20>>) =>
                /\ scaling.num = 58 * scaling.den
                /\ canvas.width = 600 /\ canvas.height = 600

C9_Witness ==
    /\ Normalised
    /\ map[1] = ExampleLayout
    /\ image[1] = <<20, 20>>
    /\ scaling = [num |-> 580, den |-> 10]
    /\ canvas.width = 600
    /\ canvas.height = 600

\* C10: once resizeCanvas() has run on a layout whose bounding box has zero
\* span on both axes, the scale is finite and positive and both canvas
\* dimensions are positive integers.
C10_ZeroSpanGuarded ==
    (Normalised /\ SpanX = 0 /\ SpanY = 0) =>
        /\ scaling.den > 0 /\ scaling.num > 0
        /\ canvas.width > 0
        /\ canvas.height > 0

\* the viewport is left as it was
ViewportUnchanged ==
    /\ scaling' = scaling
    /\ xOffset' = xOffset
    /\ yOffset' = yOffset
    /\ canvas'.width = canvas.width
    /\ canvas'.height = canvas.height

\* C11: a render() with layout, colour frame and sprite present composites
\* exactly the lights with index below min(|layout|, |colour frame|) and reads
\* no layout entry at an index >= |layout| (such a read raises a TypeError).
C11_MinOfBothLengths ==
    [][(loop /\ map # None /\ pixels # None /\ image # None) =>
          /\ Len(canvas'.lights) = Min2(Len(map[1]), Len(pixels[1]))
          /\ ~threw']_vars

\* C12: a tick with the layout or the colour frame not yet received leaves the
\* canvas and the viewport unchanged, raises nothing and captures no frame,
\* also while the recorder is armed.
C12_NoDataNoOp ==
    [][(loop /\ (map = None \/ pixels = None)) =>
          /\ canvas' = canvas
          /\ ViewportUnchanged
          /\ ~threw'
          /\ frames' = frames
          /\ now' = now]_vars

C12_Witness ==
    /\ active
    /\ map # None
    /\ pixels = None
    /\ rafId = 0
    /\ frames = <<>>
    /\ canvas.lights = <<>>

\* C13: with an empty layout, render() composites no light and raises no error
\* for any colour frame, and the setMap that installed the empty layout left
\* the viewport unchanged.
C13_EmptyLayoutDisables ==
    [][/\ (loop /\ map = Some(<<>>) /\ pixels # None) =>
             Len(canvas'.lights) = 0 /\ ~threw'
       /\ (map' # map /\ map' = Some(<<>>)) => ViewportUnchanged]_vars

\* a step in which a /map or a /data response failed: a status other than 200,
\* or a body that JSON.parse rejects
FailedMapResponse ==
    \E st \in Statuses : \E body \in {None} \cup {Some(l) : l \in Layouts} :
        (st # 200 \/ body = None) /\ acquireMapOnload(st, body)
FailedDataResponse ==
    \E st \in Statuses : \E body \in {None} \cup {Some(f) : f \in ColorFrames} :
        (st # 200 \/ body = None) /\ acquirePixelDataOnload(st, body)

\* C14: after a layout or colour response that fails (non-200 status, or a
\* body that does not parse), the renderer's layout, colour frame and viewport
\* are as before, and colour data is being polled.
C14_FailureSkipsUpdate ==
    [][(FailedMapResponse \/ FailedDataResponse) =>
          /\ map' = map
          /\ pixels' = pixels
          /\ ViewportUnchanged
          /\ polling']_vars

\* the armed recorder holds MaxFrames frames and the next tick would capture
\* another one: the only state in which the model holds the render loop back
AtFrameCap == active /\ Len(frames) = MaxFrames /\ ReachesCallbacks

\* C15: exactly one animation-frame request is pending in every state, also
\* after a tick whose render() raised and after every recorder operation and
\* encoder event; the pending tick can run in every state, and ticks occur
\* again and again.
C15_LoopNeverStops ==
    /\ [](rafPending = 1)
    /\ [](~AtFrameCap => ENABLED loop)
    /\ [][loop => rafPending' = 1]_vars
    /\ ([]<><<loop>>_vars \/ []<>AtFrameCap)

C15_Witness ==
    /\ rafPending = 1
    /\ threw
    /\ progressText = "Aborted"
    /\ rafId = 0

\* C16: sprites are composited only once the sprite image has loaded, and a
\* tick with layout and colour frame present but the sprite not yet loaded
\* draws nothing and raises no error.
C16_NoDrawBeforeSprite ==
    [][/\ (loop /\ Len(canvas'.lights) > 0) => image # None
       /\ (loop /\ map # None /\ pixels # None /\ image = None) =>
             Len(canvas'.lights) = 0 /\ ~threw']_vars

\* every sprite of the current layout lies inside the canvas, within half a pixel
SpritesInsideCanvas ==
    \A i \in 1..Len(map[1]) :
        LET x == drawX(i)
            y == drawY(i)
            w == image[1][1]
            h == image[1][2]
        IN /\ x.num >= 0
           /\ 2 * x.num + 2 * w * x.den <= 2 * canvas.width * x.den + x.den
           /\ 2 * y.num >= -y.den
           /\ y.num + h * y.den <= canvas.height * y.den

\* C17: once resizeCanvas() has run on a layout with a non-zero span, for every
\* sprite size below the bound both canvas dimensions are at most 600 and every
\* sprite position of render() lies inside the canvas (within rounding).
C17_FitsBound ==
    (Normalised /\ (SpanX > 0 \/ SpanY > 0)) =>
        /\ canvas.width <= 600
        /\ canvas.height <= 600
        /\ SpritesInsideCanvas


\* C18 (as claimed): the viewport (scale, offsets, canvas width and height)
\* changes only in a step that replaces the layout.
C18_OnlySetMap ==
    [][~ViewportUnchanged => map' # map]_vars

\* C18 (amended): the viewport changes only in a step that replaces the layout
\* (setMap) or loads the sprite (image.onload), the two callers of
\* resizeCanvas(); render ticks, setPixels and every recorder operation and
\* encoder event leave it unchanged.
C18_OnlyResizeCanvas ==
    [][/\ ~ViewportUnchanged => (map' # map \/ image' # image)
       /\ (loop \/ pixels' # pixels \/ recorderVars' # recorderVars
             \/ encoderVars' # encoderVars) => ViewportUnchanged]_vars

C18_Witness ==
    /\ Normalised
    /\ scaling = [num |-> 580, den |-> 10]
    /\ canvas.width = 600
    /\ pixels # None
    /\ Len(canvas.lights) = 1
    /\ Len(frames) = 1
    /\ progressText = "Aborted"

\* C19: a frame is captured only by a tick whose render() composited every
\* colour of the colour frame and raised nothing; that tick appends exactly one
\* frame, a copy of the finished canvas; a tick whose render() raised, also
\* part-way through the lights, captures nothing.
C19_CompleteComposites ==
    [][/\ Len(frames') > Len(frames) =>
             /\ loop
             /\ Len(frames') = Len(frames) + 1
             /\ ~threw'
             /\ Len(canvas'.lights) = Len(pixels[1])
             /\ frames'[Len(frames')].canvas = canvas'
       /\ (loop /\ threw') => frames' = frames]_vars

C19_Witness ==
    /\ active
    /\ Len(frames) = 1
    /\ Len(frames[1].canvas.lights) = 1
    /\ threw
    /\ Len(canvas.lights) = 3
    /\ Len(pixels[1]) = 4

\* C20: while an encoder holds a capture sequence (from the stop() that
\* created it until its finished or abort), the record button is disabled and
\* active is false, there is exactly one encoder, and the capture sequence and
\* the frames handed to the encoder stay as they were handed over.
C20_EncodingIsExclusive ==
    /\ [](gifs # <<>> =>
            /\ disabled
            /\ ~active
            /\ Len(gifs) = 1
            /\ frames # <<>>
            /\ Len(gifs[1].frames) = Len(frames)
            /\ \A i \in 1..Len(frames) : gifs[1].frames[i].canvas = frames[i].canvas)
    /\ [][(gifs # <<>> /\ gifs' # <<>>) =>
            /\ frames' = frames
            /\ gifs'[1].frames = gifs[1].frames]_vars

C20_Witness ==
    /\ Len(gifs) = 1
    /\ gifs[1].state = "started"
    /\ progressText = "50%"
    /\ disabled
    /\ Len(frames) = 2
    /\ rafId = 0
====
